---- MODULE Spec2Model ----
(***************************************************************************)
(* The MCP client of src/client/mcp_client.py as a state machine: main     *)
(* connects to the configured servers (connect_to_servers and              *)
(* connect_to_server), runs the interactive shell (chat_loop), drives each *)
(* query through process_query and finally runs cleanup.                   *)
(*                                                                         *)
(* The program is single threaded; every await is a step boundary.  What   *)
(* the outside world answers (the configuration file, a server, the        *)
(* language model, the terminal) is chosen by \E from small sets.          *)
(*                                                                         *)
(* Two specifications run the same actions under two environments:         *)
(*   Spec       every outcome of every connection step and of a tool call, *)
(*              queries of one invocation;                                 *)
(*   SpecQuery  few servers, queries of several rounds and invocations,    *)
(*              well-formed and malformed.                                 *)
(*                                                                         *)
(* The paper cache of src/server/research_server.py (search_papers and the *)
(* resource papers://{topic}) is a process of its own:                     *)
(*   SpecServer searches and reads of the cache, in any order.             *)
(* The start of that server and the requests it receives when it is        *)
(* exposed over HTTP:                                                      *)
(*   SpecHttp   the environment at start, the Host header of each request. *)
(***************************************************************************)
EXTENDS Integers, Sequences, FiniteSets, TLC

\* ------------------------------------------------------------------ bounds
\* max_iterations is a plain attribute (15 after construction); the claims
\* speak of "a maximum iteration count N", so N is drawn from 1..MaxIterations.
MaxIterations == 2
\* tool invocations the model requests in one response, at most
MaxBatch == 2
\* tool invocations the model requests in one query, at most
MaxCalls == 3
\* lines the terminal delivers before end of input
MaxLines == 2
\* calls of search_papers the server receives
MaxSearches == 2
\* HTTP requests the server receives
MaxRequests == 2

\* --------------------------------------------------------------- environment
\* What the configuration file may hold: missing, not JSON, or a mapping
\* "mcpServers" from server names to parameters (in file order; a JSON object
\* has no duplicate keys once loaded).
ConfigFile(status, names) == [status |-> status, servers |-> names]

ServerLists(S) ==
    {<<>>} \cup {<<a>> : a \in S} \cup {p \in S \X S : p[1] # p[2]}

Configs ==
    {ConfigFile("missing", <<>>), ConfigFile("invalid", <<>>)}
        \cup {ConfigFile("ok", s) : s \in ServerLists({"A", "B"})}

QueryConfigs ==
    {ConfigFile("missing", <<>>)}
        \cup {ConfigFile("ok", s) : s \in {<<"A">>, <<"A", "unknown">>}}

\* What list_tools / list_prompts / list_resources of a server may answer:
\* "raise", or a list of names.
Raises == <<"raise">>
ToolLists == {Raises, <<>>, <<"extract_info">>, <<"search_papers", "extract_info">>}
PromptLists == {Raises, <<>>, <<"get_search_prompt">>}
ResourceLists == {Raises, <<>>, <<"papers://folders">>}
QueryToolLists == {<<"extract_info">>}
NoLists == {<<>>}

\* What the terminal may deliver and what the model may answer.
Queries == {"q1", "q2"}
RequestedTools == {"extract_info", "nope"}
ArgPayloads == {"object", "not_object", "invalid"}
ToolOutcomes == {"text", "empty", "raise"}
Contents == {"", "answer"}

VARIABLES
    pc,                 \* where main stands
    servers, sidx,      \* the mapping being connected, and the current entry
    sessions,           \* self.sessions (its keys)
    exit_stack,         \* self.exit_stack: the registered releases, oldest first
    released,           \* the releases cleanup has run, in order
    all_tools, tool_to_server,
    all_prompts, prompt_to_server,
    all_resources, resource_to_server,
    max_iterations,
    messages,           \* process_query's history
    iteration,
    message, cidx,      \* the model's last response, the invocation being executed
    pq,                 \* how the last process_query ended
    printed,            \* the final answer printed by the last process_query
    escaped,            \* the exception that left the last process_query
    model_calls,        \* model round-trips of the current query
    nlines,             \* lines read from the terminal
    fatal,              \* the exception main caught
    cleanups,           \* calls of cleanup
    close_error,        \* some release raised during cleanup
    attempts,           \* history: how the connection of each server went
    listed_tools,       \* history: what each server's list_tools answered
    listed_prompts,     \* history: what each server's list_prompts answered
    listed_resources,   \* history: what each server's list_resources answered
    asked,              \* history: calls of process_query so far
    interrupted,        \* the last pass of the shell loop was ended by Ctrl-C
    session,            \* process_query's local: the server whose session is called
    paper_dir,          \* research_server: PAPER_DIR exists
    dirs,               \* research_server: the topic directories under PAPER_DIR
    files,              \* research_server: papers_info.json of each topic directory
    nsearches,          \* calls of search_papers
    last_search,        \* the last call of search_papers and what it returned
    last_read,          \* the last read of papers://{topic} and what it returned
    transport_mode,     \* research_server: how it serves ("none" before it starts)
    allowed_hosts,      \* research_server: the module's list allowed_hosts
    host_check,         \* research_server: the host validation in force
    requests            \* history: the HTTP requests and whether each was accepted

vars == <<pc, servers, sidx, sessions, exit_stack, released,
          all_tools, tool_to_server, all_prompts, prompt_to_server,
          all_resources, resource_to_server, max_iterations, messages,
          iteration, message, cidx, pq, printed, escaped, model_calls,
          nlines, fatal, cleanups, close_error, attempts, listed_tools,
          listed_prompts, listed_resources, asked, interrupted, session,
          paper_dir, dirs, files, nsearches, last_search, last_read,
          transport_mode, allowed_hosts, host_check, requests>>

registry == <<all_tools, tool_to_server, all_prompts, prompt_to_server,
              all_resources, resource_to_server>>
query == <<messages, iteration, message, cidx, pq, printed, escaped,
           model_calls, session>>
listed == <<listed_tools, listed_prompts, listed_resources>>
history == <<attempts, listed>>
teardown == <<released, cleanups, close_error>>
conn == <<servers, sidx, sessions, exit_stack>>
shell == <<nlines, asked, interrupted>>
\* the state of research_server.py, which no step of the client touches
research_server ==
    <<paper_dir, dirs, files, nsearches, last_search, last_read>>
\* how research_server.py is exposed, which no step of the client touches
network == <<transport_mode, allowed_hosts, host_check, requests>>
fixed == <<max_iterations, research_server, network>>
client == <<pc, conn, teardown, registry, max_iterations, query, shell, fatal,
            history>>

\* ------------------------------------------------------------------ helpers
EmptyMap == [x \in {} |-> x]

\* d[k] = v of a dict
Put(d, k, v) == [x \in DOMAIN d \cup {k} |-> IF x = k THEN v ELSE d[x]]

\* Mutant of PutAll: a name that is already mapped keeps its first owner.
RECURSIVE PutAll_KeepFirst(_, _, _)
PutAll_KeepFirst(d, ks, v) ==
    IF ks = <<>> THEN d
    ELSE PutAll_KeepFirst(IF Head(ks) \in DOMAIN d THEN d ELSE Put(d, Head(ks), v),
                          Tail(ks), v)

\* for x in response: d[x.name] = server_name
RECURSIVE PutAll(_, _, _)
PutAll(d, ks, v) ==
    IF ks = <<>> THEN d ELSE PutAll(Put(d, Head(ks), v), Tail(ks), v)

Range(s) == {s[i] : i \in 1..Len(s)}

\* message = response.choices[0].message: its content and its tool calls
Message(content, calls) == [content |-> content, tool_calls |-> calls]
NoMessage == Message("", <<>>)

\* ------------------------------------------------- research_server: values
\* A topic is a string, here the sequence of its characters.
Whitespace == {" ", "\t"}
Topics == {<<w, sep, "c">> : w \in {"q", "Q"}, sep \in Whitespace \cup {"_"}}

\* What the arXiv backend may return: papers with an id and a title (the
\* title stands for the whole record of the paper).
Paper(id, title) == [id |-> id, title |-> title]
SearchResults ==
    {<<>>, <<Paper("p1", "t1")>>, <<Paper("p1", "t2")>>, <<Paper("p2", "t1")>>,
     <<Paper("p1", "t1"), Paper("p2", "t1")>>}

\* How saving papers_info.json may go: written; open() raises and the file is
\* as it was; json.dump raises after open(file_path, "w") has truncated it.
WriteOutcomes == {"ok", "open_raises", "dump_raises"}

\* The content of a papers_info.json: a JSON object from ids to records, or
\* something json.load rejects.
PapersInfo(info) == [valid |-> TRUE, info |-> info]
Corrupt == [valid |-> FALSE, info |-> EmptyMap]

\* What search_papers returns: json.dumps of an error or of the summaries.
ErrorPayload(topic) ==
    [error |-> TRUE, topic |-> topic, count |-> 0, papers |-> <<>>]
Summaries(topic, papers) ==
    [error |-> FALSE, topic |-> topic, count |-> Len(papers), papers |-> papers]

Searched(topic, backend, path, write, result) ==
    [topic |-> topic, backend |-> backend, path |-> path, write |-> write,
     result |-> result]
NoSearch == Searched(<<>>, "none", <<>>, "none", ErrorPayload(<<>>))

ReadOf(topic, path, result) ==
    [read |-> TRUE, topic |-> topic, path |-> path, result |-> result]
NoRead ==
    [read |-> FALSE, topic |-> <<>>, path |-> <<>>,
     result |-> [found |-> "none", info |-> EmptyMap]]

\* What the environment of the server may hold and what a request may carry.
RenderHostnames == {"", "app.onrender.com"}
TransportModes == {"stdio", "http"}
HostHeaders == {"localhost", "127.0.0.1", "app.onrender.com", "evil.example"}
HttpRequest(host, accepted) == [host |-> host, accepted |-> accepted]

\* ------------------------------------------------------------ construction
InitWith(N) ==
    /\ pc = "connect_to_servers"
    /\ servers = <<>> /\ sidx = 0
    /\ sessions = {}
    /\ exit_stack = <<>> /\ released = <<>>
    /\ all_tools = <<>> /\ tool_to_server = EmptyMap
    /\ all_prompts = <<>> /\ prompt_to_server = EmptyMap
    /\ all_resources = <<>> /\ resource_to_server = EmptyMap
    /\ max_iterations \in N
    /\ messages = <<>> /\ iteration = 0
    /\ message = NoMessage /\ cidx = 0
    /\ pq = "none" /\ printed = "" /\ escaped = "none" /\ model_calls = 0
    /\ nlines = 0
    /\ fatal = "none" /\ cleanups = 0 /\ close_error = FALSE
    /\ attempts = EmptyMap
    /\ listed_tools = EmptyMap /\ listed_prompts = EmptyMap
    /\ listed_resources = EmptyMap
    /\ asked = 0 /\ interrupted = FALSE /\ session = "none"
    /\ paper_dir = FALSE /\ dirs = {} /\ files = EmptyMap
    /\ nsearches = 0 /\ last_search = NoSearch /\ last_read = NoRead
    /\ transport_mode = "none" /\ allowed_hosts = <<>>
    /\ host_check = "none" /\ requests = <<>>

Init == InitWith({1})

InitQuery == InitWith(1..MaxIterations)

\* ------------------------------------------------------- connect_to_servers
\* main's except clauses: the exception is reported and cleanup runs.
Fatal(exc) == pc' = "cleanup" /\ fatal' = exc

\* The file is read; an empty or absent mapping returns at once, otherwise the
\* first server is attempted.
LoadConfig(cfg) ==
    /\ pc = "connect_to_servers"
    /\ IF cfg.status = "missing" THEN
            Fatal("FileNotFoundError") /\ UNCHANGED <<servers, sidx>>
       ELSE IF cfg.status = "invalid" THEN
            Fatal("JSONDecodeError") /\ UNCHANGED <<servers, sidx>>
       ELSE IF cfg.servers = <<>> THEN
            pc' = "chat_loop" /\ UNCHANGED <<servers, sidx, fatal>>
       ELSE
            /\ pc' = "connect_to_server"
            /\ servers' = cfg.servers /\ sidx' = 1
            /\ UNCHANGED fatal
    /\ UNCHANGED <<sessions, exit_stack, teardown, registry,
                   fixed, query, shell, history>>

\* The end of connect_to_server: the loop of connect_to_servers goes on to the
\* next server, and after the last one checks that some session exists.
NoSessionIsFatal(S) == S = {}

AfterServer(S) ==
    IF sidx < Len(servers) THEN
        sidx' = sidx + 1 /\ pc' = "connect_to_server" /\ UNCHANGED fatal
    ELSE IF NoSessionIsFatal(S) THEN
        UNCHANGED sidx /\ Fatal("Exception")
    ELSE
        UNCHANGED <<sidx, fatal>> /\ pc' = "chat_loop"

\* ------------------------------------------------------- connect_to_server
\* Mutant of Skip: the exception leaves connect_to_server and reaches main.
Skip_Raises == UNCHANGED sidx /\ Fatal("Exception")

\* The outer except Exception of connect_to_server: the server is skipped.
Skip == AfterServer(sessions)

\* StdioServerParameters(**params) and entering stdio_client.
EnterTransport(ok) ==
    /\ pc = "connect_to_server"
    /\ IF ~ok THEN
            Skip /\ UNCHANGED exit_stack
       ELSE
            /\ exit_stack' = Append(exit_stack, <<"transport", servers[sidx]>>)
            /\ pc' = "ClientSession"
            /\ UNCHANGED <<sidx, fatal>>
    /\ attempts' = Put(attempts, servers[sidx], IF ok THEN "started" ELSE "transport")
    /\ UNCHANGED <<servers, sessions, teardown, registry, fixed,
                   query, shell, listed>>

\* Mutant of EnterSession: the release of the session is not registered when
\* the session is opened.
EnterSession_NotRegistered(ok) ==
    /\ pc = "ClientSession"
    /\ IF ~ok THEN
            Skip
       ELSE
            /\ pc' = "initialize"
            /\ UNCHANGED <<sidx, fatal>>
    /\ attempts' = Put(attempts, servers[sidx], IF ok THEN "started" ELSE "session")
    /\ UNCHANGED <<servers, sessions, exit_stack, teardown, registry,
                   fixed, query, shell, listed>>

\* Entering ClientSession(read, write).
EnterSession(ok) ==
    /\ pc = "ClientSession"
    /\ IF ~ok THEN
            Skip /\ UNCHANGED exit_stack
       ELSE
            /\ exit_stack' = Append(exit_stack, <<"session", servers[sidx]>>)
            /\ pc' = "initialize"
            /\ UNCHANGED <<sidx, fatal>>
    /\ attempts' = Put(attempts, servers[sidx], IF ok THEN "started" ELSE "session")
    /\ UNCHANGED <<servers, sessions, teardown, registry,
                   fixed, query, shell, listed>>

\* Mutant of Initialize: the session is not stored before the capabilities
\* are registered.
Initialize_NotStored(ok) ==
    /\ pc = "initialize"
    /\ IF ~ok THEN
            Skip
       ELSE
            /\ pc' = "list_tools"
            /\ UNCHANGED <<sidx, fatal>>
    /\ attempts' = Put(attempts, servers[sidx], IF ok THEN "ok" ELSE "initialize")
    /\ UNCHANGED <<servers, sessions, exit_stack, teardown, registry,
                   fixed, query, shell, listed>>

\* session.initialize() and, when it returns, self.sessions[server_name] = session.
Initialize(ok) ==
    /\ pc = "initialize"
    /\ IF ~ok THEN
            Skip /\ UNCHANGED sessions
       ELSE
            /\ sessions' = sessions \cup {servers[sidx]}
            /\ pc' = "list_tools"
            /\ UNCHANGED <<sidx, fatal>>
    /\ attempts' = Put(attempts, servers[sidx], IF ok THEN "ok" ELSE "initialize")
    /\ UNCHANGED <<servers, exit_stack, teardown, registry,
                   fixed, query, shell, listed>>

\* Mutant of ListTools: the tools are listed but not mapped to their server.
ListTools_ListOnly(tools) ==
    /\ pc = "list_tools"
    /\ IF tools = Raises THEN
            UNCHANGED all_tools
       ELSE
            all_tools' = all_tools \o tools
    /\ pc' = "list_prompts"
    /\ listed_tools' = Put(listed_tools, servers[sidx], tools)
    /\ UNCHANGED <<conn, teardown, tool_to_server, all_prompts, prompt_to_server,
                   all_resources, resource_to_server, fixed, query, shell, fatal,
                   attempts, listed_prompts, listed_resources>>

\* session.list_tools() in its own try: every tool is mapped to this server
\* and appended to all_tools; a raise registers nothing.
ListTools(tools) ==
    /\ pc = "list_tools"
    /\ IF tools = Raises THEN
            UNCHANGED <<all_tools, tool_to_server>>
       ELSE
            /\ tool_to_server' = PutAll(tool_to_server, tools, servers[sidx])
            /\ all_tools' = all_tools \o tools
    /\ pc' = "list_prompts"
    /\ listed_tools' = Put(listed_tools, servers[sidx], tools)
    /\ UNCHANGED <<conn, teardown, all_prompts, prompt_to_server, all_resources,
                   resource_to_server, fixed, query, shell, fatal,
                   attempts, listed_prompts, listed_resources>>

\* Mutant of ListPrompts: what list_prompts raised is registered like a prompt.
ListPrompts_RaiseRegisters(prompts) ==
    /\ pc = "list_prompts"
    /\ prompt_to_server' = PutAll(prompt_to_server, prompts, servers[sidx])
    /\ all_prompts' = all_prompts \o prompts
    /\ pc' = "list_resources"
    /\ listed_prompts' = Put(listed_prompts, servers[sidx], prompts)
    /\ UNCHANGED <<conn, teardown, all_tools, tool_to_server, all_resources,
                   resource_to_server, fixed, query, shell, fatal,
                   attempts, listed_tools, listed_resources>>

\* Mutant of ListPrompts: a raise of list_prompts ends the connection of the
\* server, as if the three enumerations shared one try.
ListPrompts_Aborts(prompts) ==
    /\ pc = "list_prompts"
    /\ IF prompts = Raises THEN
            AfterServer(sessions) /\ UNCHANGED <<all_prompts, prompt_to_server>>
       ELSE
            /\ prompt_to_server' = PutAll(prompt_to_server, prompts, servers[sidx])
            /\ all_prompts' = all_prompts \o prompts
            /\ pc' = "list_resources"
            /\ UNCHANGED <<sidx, fatal>>
    /\ listed_prompts' = Put(listed_prompts, servers[sidx], prompts)
    /\ UNCHANGED <<servers, sessions, exit_stack, teardown, all_tools,
                   tool_to_server, all_resources, resource_to_server,
                   fixed, query, shell, attempts, listed_tools,
                   listed_resources>>

\* session.list_prompts() in its own try.
ListPrompts(prompts) ==
    /\ pc = "list_prompts"
    /\ IF prompts = Raises THEN
            UNCHANGED <<all_prompts, prompt_to_server>>
       ELSE
            /\ prompt_to_server' = PutAll(prompt_to_server, prompts, servers[sidx])
            /\ all_prompts' = all_prompts \o prompts
    /\ pc' = "list_resources"
    /\ listed_prompts' = Put(listed_prompts, servers[sidx], prompts)
    /\ UNCHANGED <<conn, teardown, all_tools, tool_to_server, all_resources,
                   resource_to_server, fixed, query, shell, fatal,
                   attempts, listed_tools, listed_resources>>

\* One entry of all_resources: the resource's name is its own name here.
ResourceEntry(uri, server) == [uri |-> uri, name |-> uri, server |-> server]

\* session.list_resources() in its own try; then connect_to_server returns.
ListResources(resources) ==
    /\ pc = "list_resources"
    /\ IF resources = Raises THEN
            UNCHANGED <<all_resources, resource_to_server>>
       ELSE
            /\ resource_to_server' =
                    PutAll(resource_to_server, resources, servers[sidx])
            /\ all_resources' = all_resources \o
                    [i \in 1..Len(resources) |->
                        ResourceEntry(resources[i], servers[sidx])]
    /\ AfterServer(sessions)
    /\ listed_resources' = Put(listed_resources, servers[sidx], resources)
    /\ UNCHANGED <<servers, sessions, exit_stack, teardown, all_tools,
                   tool_to_server, all_prompts, prompt_to_server,
                   fixed, query, shell, attempts, listed_tools,
                   listed_prompts>>

\* ------------------------------------------------------------ process_query
UserTurn(q) ==
    [role |-> "user", content |-> q, tool_calls |-> <<>>, tool_call_id |-> 0]
AssistantTurn(content, calls) ==
    [role |-> "assistant", content |-> content, tool_calls |-> calls,
     tool_call_id |-> 0]
ToolTurn(id, result) ==
    [role |-> "tool", content |-> result, tool_calls |-> <<>>,
     tool_call_id |-> id]

\* The results process_query writes itself.
ErrNotConnected == "Error: Server not connected"
ErrException == "Error: exception"
NoResult == "No result"

\* Invocations requested so far in a history: the model numbers its
\* invocations, so every id is new.
RECURSIVE Requested(_)
Requested(h) ==
    IF h = <<>> THEN 0 ELSE Len(Head(h).tool_calls) + Requested(Tail(h))

Call(id, name, arguments) == [id |-> id, name |-> name, arguments |-> arguments]

\* The batches the model may request after history h: 1..maxLen invocations,
\* within the budget of the query.
Batches(h, names, payloads, maxLen) ==
    LET base == Requested(h)
        room == IF MaxCalls - base < maxLen THEN MaxCalls - base ELSE maxLen
    IN UNION {
         { [i \in 1..n |-> Call(base + i, ns[i], as[i])] :
             ns \in [1..n -> names], as \in [1..n -> payloads] }
         : n \in 1..room }

\* Mutant of StartQuery: the history of the shell is kept across queries.
StartQuery_KeepsHistory(q) ==
    /\ messages' = Append(messages, UserTurn(q))
    /\ iteration' = 0
    /\ message' = NoMessage /\ cidx' = 0
    /\ pq' = "running" /\ printed' = "" /\ escaped' = "none"
    /\ model_calls' = 0 /\ session' = "none"
    /\ pc' = "AwaitingModel"

\* messages = [{"role": "user", "content": query}]; iteration = 0
StartQuery(q) ==
    /\ messages' = <<UserTurn(q)>>
    /\ iteration' = 0
    /\ message' = NoMessage /\ cidx' = 0
    /\ pq' = "running" /\ printed' = "" /\ escaped' = "none"
    /\ model_calls' = 0 /\ session' = "none"
    /\ pc' = "AwaitingModel"

\* while iteration < self.max_iterations
LoopGuard == iteration < max_iterations

\* Mutant of FinalAnswer: the return is missing, the loop goes on.
FinalAnswer_NoReturn(content) ==
    /\ printed' = content
    /\ pc' = "AwaitingModel"
    /\ UNCHANGED <<messages, pq>>

\* else: if message.content: print(message.content); return
FinalAnswer(content) ==
    /\ printed' = content
    /\ pq' = "Done"
    /\ pc' = "chat_loop"
    /\ UNCHANGED messages

\* One model round-trip.  Without tool calls the content is printed and
\* process_query returns; with tool calls one assistant turn records them all.
CallModel(content, calls) ==
    /\ pc = "AwaitingModel"
    /\ LoopGuard
    /\ iteration' = iteration + 1
    /\ model_calls' = model_calls + 1
    /\ message' = Message(content, calls)
    /\ IF calls = <<>> THEN
            FinalAnswer(content) /\ UNCHANGED cidx
       ELSE
            /\ messages' = Append(messages, AssistantTurn(content, calls))
            /\ cidx' = 1
            /\ pc' = "ExecutingTools"
            /\ UNCHANGED <<pq, printed>>
    /\ UNCHANGED <<conn, teardown, registry, fixed, escaped, session, shell,
                   fatal, history>>

\* json.loads(call.function.arguments) and list(tool_args.keys()): what the
\* payload raises, "none" when it is a JSON object.
DecodeError(arguments) ==
    CASE arguments = "invalid" -> "JSONDecodeError"
      [] arguments = "not_object" -> "AttributeError"
      [] OTHER -> "none"

\* Mutant of ServerFor: a mapped tool goes to the first connected server.
ServerFor_FirstConnected(name) ==
    IF name \in DOMAIN tool_to_server THEN
        servers[CHOOSE i \in 1..Len(servers) :
                    /\ servers[i] \in sessions
                    /\ \A j \in 1..(i - 1) : servers[j] \notin sessions]
    ELSE "unknown"

\* self.tool_to_server.get(tool_name, "unknown")
ServerFor(name) ==
    IF name \in DOMAIN tool_to_server THEN tool_to_server[name] ELSE "unknown"

\* if iteration >= self.max_iterations: return
LimitReached == iteration >= max_iterations

\* Mutant of AppendResult: an error result is not appended to the history.
AppendResult_ErrorsDropped(result) ==
    /\ messages' = IF result \in {ErrNotConnected, ErrException} THEN messages
                   ELSE Append(messages, ToolTurn(message.tool_calls[cidx].id, result))
    /\ IF cidx < Len(message.tool_calls) THEN
            cidx' = cidx + 1 /\ pc' = "ExecutingTools" /\ UNCHANGED pq
       ELSE IF LimitReached THEN
            UNCHANGED cidx /\ pc' = "chat_loop" /\ pq' = "IterationLimitReached"
       ELSE
            UNCHANGED <<cidx, pq>> /\ pc' = "AwaitingModel"

\* Mutant of AppendResult: the safety check runs after every result, so that
\* at the limit the rest of the batch is not executed.
AppendResult_LimitFirst(result) ==
    /\ messages' = Append(messages, ToolTurn(message.tool_calls[cidx].id, result))
    /\ IF LimitReached THEN
            UNCHANGED cidx /\ pc' = "chat_loop" /\ pq' = "IterationLimitReached"
       ELSE IF cidx < Len(message.tool_calls) THEN
            cidx' = cidx + 1 /\ pc' = "ExecutingTools" /\ UNCHANGED pq
       ELSE
            UNCHANGED <<cidx, pq>> /\ pc' = "AwaitingModel"

\* messages.append({"role": "tool", ...}) and what follows it: the next
\* invocation of the batch, or after the last one the safety check and the
\* next round-trip.
AppendResult(result) ==
    /\ messages' = Append(messages, ToolTurn(message.tool_calls[cidx].id, result))
    /\ IF cidx < Len(message.tool_calls) THEN
            cidx' = cidx + 1 /\ pc' = "ExecutingTools" /\ UNCHANGED pq
       ELSE IF LimitReached THEN
            UNCHANGED cidx /\ pc' = "chat_loop" /\ pq' = "IterationLimitReached"
       ELSE
            UNCHANGED <<cidx, pq>> /\ pc' = "AwaitingModel"

\* Mutant of ExecuteTool: what the decoding raises is not caught by chat_loop
\* and reaches main.
ExecuteTool_Fatal ==
    /\ pc = "ExecutingTools"
    /\ LET call == message.tool_calls[cidx] IN
        IF DecodeError(call.arguments) # "none" THEN
            /\ escaped' = DecodeError(call.arguments)
            /\ pq' = "Raised"
            /\ pc' = "cleanup"
            /\ fatal' = DecodeError(call.arguments)
            /\ UNCHANGED <<messages, cidx, session>>
        ELSE IF ServerFor(call.name) \notin sessions THEN
            AppendResult(ErrNotConnected) /\ UNCHANGED <<escaped, session, fatal>>
        ELSE
            /\ session' = ServerFor(call.name)
            /\ pc' = "call_tool"
            /\ UNCHANGED <<messages, cidx, pq, escaped, fatal>>
    /\ UNCHANGED <<conn, teardown, registry, fixed, iteration,
                   message, printed, model_calls, shell, history>>

\* The head of the for loop over message.tool_calls: decode the arguments,
\* find the session.  An exception here leaves process_query and is caught by
\* chat_loop's except Exception, which reads the next line.
ExecuteTool ==
    /\ pc = "ExecutingTools"
    /\ LET call == message.tool_calls[cidx] IN
        IF DecodeError(call.arguments) # "none" THEN
            /\ escaped' = DecodeError(call.arguments)
            /\ pq' = "Raised"
            /\ pc' = "chat_loop"
            /\ UNCHANGED <<messages, cidx, session>>
        ELSE IF ServerFor(call.name) \notin sessions THEN
            AppendResult(ErrNotConnected) /\ UNCHANGED <<escaped, session>>
        ELSE
            /\ session' = ServerFor(call.name)
            /\ pc' = "call_tool"
            /\ UNCHANGED <<messages, cidx, pq, escaped>>
    /\ UNCHANGED <<conn, teardown, registry, fixed, iteration,
                   message, printed, model_calls, shell, fatal, history>>

\* await session.call_tool(...) returns or raises, inside try/except Exception.
ToolResult(out) ==
    CASE out = "text" -> "text"
      [] out = "empty" -> NoResult
      [] OTHER -> ErrException

CallTool(out) ==
    /\ pc = "call_tool"
    /\ AppendResult(ToolResult(out))
    /\ UNCHANGED <<conn, teardown, registry, fixed, iteration,
                   message, printed, escaped, model_calls, session, shell,
                   fatal, history>>

\* ---------------------------------------------------------------- chat_loop
Commands == {"", "tools", "prompts", "resources"}
QuitWords == {"quit", "exit", "q"}

\* process_query has returned or raised: its locals and its outcome are gone.
\* (They are kept until the next input() so that the result of a query is a
\* state.)
DropLocals ==
    /\ messages' = <<>> /\ iteration' = 0
    /\ message' = NoMessage /\ cidx' = 0
    /\ model_calls' = 0 /\ session' = "none"
    /\ pq' = "none" /\ printed' = "" /\ escaped' = "none"

\* One pass of the while True loop: input() delivers a line, end of input or
\* an interrupt.
ReadLine(line) ==
    /\ pc = "chat_loop"
    /\ IF line = "EOFError" THEN
            pc' = "cleanup" /\ DropLocals /\ UNCHANGED <<nlines, asked>>
       ELSE
            /\ nlines < MaxLines
            /\ nlines' = nlines + 1
            /\ IF line \in QuitWords THEN
                    pc' = "cleanup" /\ DropLocals /\ UNCHANGED asked
               ELSE IF line \in Commands \cup {"KeyboardInterrupt"} THEN
                    UNCHANGED <<pc, asked>> /\ DropLocals
               ELSE
                    StartQuery(line) /\ asked' = asked + 1
    /\ interrupted' = (line = "KeyboardInterrupt")
    /\ UNCHANGED <<conn, teardown, registry, fixed, fatal, history>>

\* Ctrl-C while a query is processed.  In the blocking call of the model
\* KeyboardInterrupt is raised where the code stands; it leaves process_query
\* and chat_loop's except KeyboardInterrupt reads the next line.  While
\* call_tool is awaited the task of main is cancelled: CancelledError is not an
\* Exception, so it passes the except of process_query, those of chat_loop and
\* those of main, and main's finally runs cleanup.
Interrupt ==
    /\ \/ /\ pc = "AwaitingModel" /\ LoopGuard
          /\ iteration' = iteration + 1
          /\ pq' = "Raised" /\ escaped' = "KeyboardInterrupt"
          /\ pc' = "chat_loop"
          /\ UNCHANGED <<messages, message, cidx, printed, model_calls, session>>
       \/ /\ pc = "call_tool"
          /\ messages' = <<>> /\ iteration' = 0
          /\ message' = NoMessage /\ cidx' = 0
          /\ model_calls' = 0 /\ session' = "none" /\ printed' = ""
          /\ pq' = "Raised" /\ escaped' = "CancelledError"
          /\ pc' = "cleanup"
    /\ interrupted' = TRUE
    /\ UNCHANGED <<conn, teardown, registry, fixed, nlines, asked, fatal,
                   history>>

\* ------------------------------------------------------------------ cleanup
\* main's finally: cleanup is called.
Cleanup ==
    /\ pc = "cleanup"
    /\ cleanups' = cleanups + 1
    /\ pc' = "aclose"
    /\ UNCHANGED <<conn, released, close_error, registry, fixed, query,
                   shell, fatal, history>>

\* Mutant of Release: a release that raises ends aclose, the rest is skipped.
Release_StopsAtError(ok) ==
    /\ pc = "aclose"
    /\ exit_stack # <<>>
    /\ released' = Append(released, exit_stack[Len(exit_stack)])
    /\ exit_stack' = IF ok THEN SubSeq(exit_stack, 1, Len(exit_stack) - 1)
                     ELSE <<>>
    /\ close_error' = (close_error \/ ~ok)
    /\ UNCHANGED <<pc, servers, sidx, sessions, cleanups, registry,
                   fixed, query, shell, fatal, history>>

\* exit_stack.aclose() runs the registered releases, newest first; a release
\* that raises does not stop the others.
Release(ok) ==
    /\ pc = "aclose"
    /\ exit_stack # <<>>
    /\ released' = Append(released, exit_stack[Len(exit_stack)])
    /\ exit_stack' = SubSeq(exit_stack, 1, Len(exit_stack) - 1)
    /\ close_error' = (close_error \/ ~ok)
    /\ UNCHANGED <<pc, servers, sidx, sessions, cleanups, registry,
                   fixed, query, shell, fatal, history>>

\* Mutant of Closed: cleanup is called a second time.
Closed_CleansAgain ==
    /\ pc = "aclose"
    /\ exit_stack = <<>>
    /\ pc' = IF cleanups < 2 THEN "cleanup" ELSE "exit"
    /\ UNCHANGED <<conn, teardown, registry, fixed, query, shell,
                   fatal, history>>

\* aclose has run every release: cleanup returns (or raises what a release
\* raised) and main ends.
Closed ==
    /\ pc = "aclose"
    /\ exit_stack = <<>>
    /\ pc' = "exit"
    /\ UNCHANGED <<conn, teardown, registry, fixed, query, shell,
                   fatal, history>>

\* ---------------------------------------------------------- research_server
\* str.lower(), on the letters of Topics
Lower(c) == IF c = "Q" THEN "q" ELSE c

\* topic.lower().replace(" ", "_") of search_papers
TopicDir(topic) ==
    [i \in 1..Len(topic) |-> IF Lower(topic[i]) = " " THEN "_" ELSE Lower(topic[i])]

\* topic.lower().replace(" ", "_") of get_papers_in_topic
TopicPath(topic) ==
    [i \in 1..Len(topic) |-> IF Lower(topic[i]) = " " THEN "_" ELSE Lower(topic[i])]

\* try: json.load(...) except (FileNotFoundError, JSONDecodeError): {}
LoadPapersInfo(path) ==
    IF path \in DOMAIN files /\ files[path].valid THEN files[path].info
    ELSE EmptyMap

\* Mutant of Merge: the file is rewritten from the new results alone.
RECURSIVE Merge_Replace(_, _)
Merge_Replace(papers_info, papers) ==
    IF papers = <<>> THEN EmptyMap
    ELSE Put(Merge_Replace(papers_info, Tail(papers)),
             Head(papers).id, Head(papers).title)

\* for paper in papers: papers_info[paper_id] = {...}
RECURSIVE Merge(_, _)
Merge(papers_info, papers) ==
    IF papers = <<>> THEN papers_info
    ELSE Merge(Put(papers_info, Head(papers).id, Head(papers).title),
               Tail(papers))

\* Saving papers_info.json, inside try/except Exception.
Save(path, papers_info, write) ==
    CASE write = "ok" -> Put(files, path, PapersInfo(papers_info))
      [] write = "dump_raises" -> Put(files, path, Corrupt)
      [] OTHER -> files

\* Mutant of SearchPapers: the topic directory is made before the backend is
\* asked.
SearchPapers_DirFirst(topic, backend, papers, write) ==
    /\ nsearches < MaxSearches
    /\ nsearches' = nsearches + 1
    /\ paper_dir' = TRUE
    /\ dirs' = dirs \cup {TopicDir(topic)}
    /\ IF backend = "error" THEN
            /\ UNCHANGED files
            /\ last_search' =
                  Searched(topic, backend, <<>>, "none", ErrorPayload(topic))
       ELSE
            LET path == TopicDir(topic) IN
            /\ files' = Save(path, Merge(LoadPapersInfo(path), papers), write)
            /\ last_search' =
                  Searched(topic, backend, path, write, Summaries(topic, papers))
    /\ last_read' = NoRead
    /\ UNCHANGED <<client, network>>

\* The tool search_papers(topic): PAPER_DIR is made; when the backend raises,
\* the error payload is returned; otherwise the topic directory is made, the
\* results are merged into its papers_info.json by id, the file is saved and
\* the summaries are returned.
SearchPapers(topic, backend, papers, write) ==
    /\ nsearches < MaxSearches
    /\ nsearches' = nsearches + 1
    /\ paper_dir' = TRUE
    /\ IF backend = "error" THEN
            /\ UNCHANGED <<dirs, files>>
            /\ last_search' =
                  Searched(topic, backend, <<>>, "none", ErrorPayload(topic))
       ELSE
            LET path == TopicDir(topic) IN
            /\ dirs' = dirs \cup {path}
            /\ files' = Save(path, Merge(LoadPapersInfo(path), papers), write)
            /\ last_search' =
                  Searched(topic, backend, path, write, Summaries(topic, papers))
    /\ last_read' = NoRead
    /\ UNCHANGED <<client, network>>

\* The resource papers://{topic}: what it answers from the file of the topic.
PapersInTopic(path) ==
    IF path \notin DOMAIN files THEN [found |-> "No papers found", info |-> EmptyMap]
    ELSE IF ~files[path].valid THEN [found |-> "Error reading", info |-> EmptyMap]
    ELSE [found |-> "Papers in Topic", info |-> files[path].info]

GetPapersInTopic(topic) ==
    /\ last_read' = ReadOf(topic, TopicPath(topic), PapersInTopic(TopicPath(topic)))
    /\ UNCHANGED <<client, network, paper_dir, dirs, files, nsearches,
                   last_search>>

\* ------------------------------------------- research_server: HTTP exposure
\* allowed_hosts = ["localhost", "127.0.0.1"], plus RENDER_EXTERNAL_HOSTNAME
\* when it is set and not empty.
AllowedHosts(render_hostname) ==
    <<"localhost", "127.0.0.1">>
        \o (IF render_hostname # "" THEN <<render_hostname>> ELSE <<>>)

\* patched_check_host_header(host, allowed): always True.
PatchedCheckHostHeader(host, allowed) == TRUE

\* The module is loaded and the server started: allowed_hosts is built; when
\* the protocol library has a function check_host_header it is replaced by
\* patched_check_host_header, otherwise (or when the import raises) the
\* library is left as it is; then the server runs over HTTP or over stdio.
Serve(mode, render_hostname, has_check) ==
    /\ transport_mode = "none"
    /\ allowed_hosts' = AllowedHosts(render_hostname)
    /\ host_check' = IF has_check THEN "patched" ELSE "library"
    /\ transport_mode' = mode
    /\ UNCHANGED <<client, research_server, requests>>

\* One HTTP request with its Host header.  With the patch in force the check
\* answers True; otherwise the library decides with its own settings, which
\* this module does not set (allowed_hosts is passed to nothing): library is
\* what it answers.
HandleRequest(host, library) ==
    /\ transport_mode = "http"
    /\ Len(requests) < MaxRequests
    /\ requests' = Append(requests,
            HttpRequest(host, IF host_check = "patched"
                              THEN PatchedCheckHostHeader(host, allowed_hosts)
                              ELSE library))
    /\ UNCHANGED <<client, research_server, transport_mode, allowed_hosts,
                   host_check>>

\* ----------------------------------------------------------- specifications
\* A response of the model: its content and its tool calls.
Responses(contents, batches) ==
    {<<c, <<>>>> : c \in Contents} \cup (contents \X batches)

QueryShellInputs == {"quit", ""} \cup Queries \cup {"EOFError", "KeyboardInterrupt"}
ShellInputs == QuitWords \cup Commands \cup {"q1", "EOFError", "KeyboardInterrupt"}

Next ==
    \/ \E cfg \in Configs : LoadConfig(cfg)
    \/ \E ok \in BOOLEAN : EnterTransport(ok)
    \/ \E ok \in BOOLEAN : EnterSession(ok)
    \/ \E ok \in BOOLEAN : Initialize(ok)
    \/ \E tools \in ToolLists : ListTools(tools)
    \/ \E prompts \in PromptLists : ListPrompts(prompts)
    \/ \E resources \in ResourceLists : ListResources(resources)
    \/ \E line \in ShellInputs : ReadLine(line)
    \/ \E r \in Responses({""},
                          Batches(messages, RequestedTools, {"object", "not_object"},
                                  1)) :
            CallModel(r[1], r[2])
    \/ ExecuteTool
    \/ \E out \in ToolOutcomes : CallTool(out)
    \/ Interrupt
    \/ Cleanup
    \/ \E ok \in BOOLEAN : Release(ok)
    \/ Closed

Spec == Init /\ [][Next]_vars

NextQuery ==
    \/ \E cfg \in QueryConfigs : LoadConfig(cfg)
    \/ EnterTransport(TRUE)
    \/ EnterSession(TRUE)
    \/ \E ok \in BOOLEAN : Initialize(ok)
    \/ \E tools \in QueryToolLists : ListTools(tools)
    \/ \E prompts \in NoLists : ListPrompts(prompts)
    \/ \E resources \in NoLists : ListResources(resources)
    \/ \E line \in QueryShellInputs : ReadLine(line)
    \/ \E r \in Responses({""},
                          Batches(messages, RequestedTools, {"object", "invalid"},
                                  MaxBatch)) :
            CallModel(r[1], r[2])
    \/ ExecuteTool
    \/ \E out \in {"text", "raise"} : CallTool(out)
    \/ Interrupt
    \/ Cleanup
    \/ Release(TRUE)
    \/ Closed

SpecQuery == InitQuery /\ [][NextQuery]_vars

\* The server alone: searches and reads of the cache, in any order.
NextServer ==
    \/ \E topic \in Topics, backend \in {"ok", "error"},
          papers \in SearchResults, write \in WriteOutcomes :
            SearchPapers(topic, backend, papers, write)
    \/ \E topic \in Topics : GetPapersInTopic(topic)

SpecServer == Init /\ [][NextServer]_vars

\* The server exposed: its start and the requests it receives.
NextHttp ==
    \/ \E mode \in TransportModes, render_hostname \in RenderHostnames,
          has_check \in BOOLEAN :
            Serve(mode, render_hostname, has_check)
    \/ \E host \in HostHeaders, library \in BOOLEAN : HandleRequest(host, library)

SpecHttp == Init /\ [][NextHttp]_vars

\* ------------------------------------------------------------------- claims
\* The batch of the last response, and the invocations of it that have been
\* attempted: those before the current one, and the current one too once the
\* for loop has been left (by finishing the batch or by an exception).
Batch == message.tool_calls
InBatch == pc \in {"ExecutingTools", "call_tool"}
Attempted(i) == i < cidx \/ (i = cidx /\ ~InBatch)

ResultTurns(id) == {m \in Range(messages) : m.role = "tool" /\ m.tool_call_id = id}
IsError(result) == result \in {ErrNotConnected, ErrException}
HasErrorTurn(id) == \E m \in ResultTurns(id) : IsError(m.content)

\* C1: an invocation whose argument payload is not valid JSON does not raise
\* out of process_query; it gets a tool-result turn holding an error string.
C1_DecodeFailureIsErrorTurn ==
    /\ escaped # "JSONDecodeError"
    /\ \A i \in 1..Len(Batch) :
          (Batch[i].arguments = "invalid" /\ Attempted(i)) => HasErrorTurn(Batch[i].id)

\* C2: an invocation (with well-formed arguments) of a tool name that has no
\* entry in tool_to_server never reaches call_tool on any session, and gets the
\* error result process_query synthesises, whatever the servers are called.
Unmapped(name) == name \notin DOMAIN tool_to_server

C2_UnknownToolNeverContactsServer ==
    /\ pc = "call_tool" => ~Unmapped(Batch[cidx].name)
    /\ \A i \in 1..Len(Batch) :
          (Unmapped(Batch[i].name) /\ Batch[i].arguments = "object" /\ Attempted(i))
              => \E m \in ResultTurns(Batch[i].id) : m.content = ErrNotConnected

\* C3: when call_tool raised for an invocation of the batch, process_query does
\* not raise, and once the batch is left every invocation of it has its own
\* result turn.
CallToolRaised ==
    \E i \in 1..Len(Batch) :
        Attempted(i) /\ (\E m \in ResultTurns(Batch[i].id) : m.content = ErrException)

C3_CallToolErrorIsLocal ==
    (CallToolRaised /\ ~interrupted) =>
        /\ escaped = "none"
        /\ ~InBatch => \A i \in 1..Len(Batch) : ResultTurns(Batch[i].id) # {}

\* C4: never more than max_iterations round-trips; and a query in which every
\* response requested a tool call ends in the iteration-limit state, without
\* raising, after exactly max_iterations round-trips.
QueryEnded == pc = "chat_loop" /\ pq \in {"Done", "IterationLimitReached", "Raised"}

C4_ExactlyNRoundTrips ==
    /\ model_calls <= max_iterations
    /\ (QueryEnded /\ Batch # <<>> /\ ~interrupted) =>
          /\ pq = "IterationLimitReached"
          /\ escaped = "none"
          /\ model_calls = max_iterations

\* C5: when the first response of a query holds no tool invocations,
\* process_query is Done after that one round-trip: nothing was appended to
\* the history, no tool was called, and the response's text is the answer.
FirstResponsePlain == model_calls = 1 /\ Batch = <<>>

C5_PlainAnswerEndsQuery ==
    FirstResponsePlain =>
        /\ pc = "chat_loop" /\ pq = "Done" /\ escaped = "none"
        /\ iteration = 1
        /\ Len(messages) = 1 /\ messages[1].role = "user"
        /\ printed = message.content

C5_Witness ==
    /\ FirstResponsePlain /\ pq = "Done"
    /\ message.content = "answer" /\ printed = "answer"

\* C6: at every model round-trip, and when the query ends without raising, the
\* history is the user turn followed by rounds, each one assistant turn that
\* carries k >= 1 invocations followed by exactly k tool turns with the ids of
\* the invocations, in their order; while a batch is executed, its assistant
\* turn is in the history, followed by the results of the invocations done.
RECURSIVE Rounds(_)
Rounds(h) ==
    IF h = <<>> THEN TRUE
    ELSE LET a == Head(h)
             k == Len(a.tool_calls)
         IN /\ a.role = "assistant" /\ k >= 1 /\ Len(h) >= k + 1
            /\ \A j \in 1..k :
                  h[j + 1].role = "tool" /\ h[j + 1].tool_call_id = a.tool_calls[j].id
            /\ Rounds(SubSeq(h, k + 2, Len(h)))

AtRoundTrip ==
    pc = "AwaitingModel" \/ (QueryEnded /\ pq # "Raised")

C6_OneAssistantTurnThenKResults ==
    /\ AtRoundTrip => (messages[1].role = "user" /\ Rounds(Tail(messages)))
    /\ InBatch =>
          LET n == Len(messages) - (cidx - 1) IN
            /\ n >= 2
            /\ messages[n] = AssistantTurn(message.content, Batch)
            /\ \A j \in 1..(cidx - 1) :
                  messages[n + j].role = "tool"
                      /\ messages[n + j].tool_call_id = Batch[j].id
            /\ messages[1].role = "user"
            /\ Rounds(SubSeq(messages, 2, n - 1))

C6_Witness ==
    /\ pc = "AwaitingModel" /\ model_calls = 1
    /\ Len(Batch) = 2 /\ Len(messages) = 4
    /\ messages[3].content = ErrException /\ messages[4].content = ErrNotConnected

\* ------------------------------------------------ claims on the connections
Connecting ==
    pc \in {"connect_to_servers", "connect_to_server", "ClientSession",
            "initialize", "list_tools", "list_prompts", "list_resources"}

Answer(listing, s) ==
    IF s \in DOMAIN listing /\ listing[s] # Raises THEN Range(listing[s]) ELSE {}
ToolsOf(s) == Answer(listed_tools, s)
PromptsOf(s) == Answer(listed_prompts, s)
ResourcesOf(s) == Answer(listed_resources, s)

\* C7 as stated: after connect_to_servers every tool a connected server
\* returned is in all_tools and is mapped to that server.
C7_EveryToolMappedToItsServer ==
    ~Connecting =>
        \A s \in sessions : \A t \in ToolsOf(s) :
            /\ t \in Range(all_tools)
            /\ t \in DOMAIN tool_to_server /\ tool_to_server[t] = s

\* C7 amended: ... and is mapped to the last connected server, in
\* configuration order, that returned it; and the scenario of two servers A
\* (search_papers, extract_info) and B (no tools, one resource).
LastAdvertiser(t) ==
    LET I == {i \in 1..Len(servers) : servers[i] \in sessions /\ t \in ToolsOf(servers[i])}
    IN servers[CHOOSE i \in I : \A j \in I : j <= i]

C7_EveryToolMappedToLastAdvertiser ==
    ~Connecting =>
        /\ \A s \in sessions : \A t \in ToolsOf(s) :
              /\ t \in Range(all_tools)
              /\ t \in DOMAIN tool_to_server /\ tool_to_server[t] = LastAdvertiser(t)
        /\ ( /\ servers = <<"A", "B">> /\ sessions = {"A", "B"}
             /\ ToolsOf("A") = {"search_papers", "extract_info"} /\ ToolsOf("B") = {}
             /\ ResourcesOf("A") = {} /\ ResourcesOf("B") = {"papers://folders"} )
           => ( /\ Len(all_tools) = 2 /\ Len(all_resources) = 1
                /\ tool_to_server["extract_info"] = "A" )

C7_Witness ==
    /\ pc = "chat_loop" /\ servers = <<"A", "B">> /\ sessions = {"A", "B"}
    /\ ToolsOf("A") = {"search_papers", "extract_info"} /\ ToolsOf("B") = {"extract_info"}
    /\ tool_to_server["search_papers"] = "A" /\ tool_to_server["extract_info"] = "B"

\* C8: when no server is connected, connect_to_servers has raised: the shell
\* is not entered and no query is processed.
C8_NoSessionIsFatal ==
    (~Connecting /\ sessions = {}) =>
        (fatal # "none" /\ pc \in {"cleanup", "aclose", "exit"})

\* C9: a server whose transport, session or handshake failed is in no
\* registry; its failure does not leave connect_to_server (the only exception
\* of the connection phase is connect_to_servers' own, raised after every
\* server was attempted and none connected), so every server is attempted.
Failed(s) == s \in DOMAIN attempts /\ attempts[s] \in {"transport", "session", "initialize"}

Owners ==
    {tool_to_server[t] : t \in DOMAIN tool_to_server}
        \cup {prompt_to_server[q] : q \in DOMAIN prompt_to_server}
        \cup {resource_to_server[r] : r \in DOMAIN resource_to_server}
        \cup {all_resources[i].server : i \in 1..Len(all_resources)}

C9_FailedServerIsSkipped ==
    /\ \A s \in DOMAIN attempts : Failed(s) => (s \notin sessions /\ s \notin Owners)
    /\ (~Connecting /\ (\E s \in DOMAIN attempts : Failed(s)))
          => DOMAIN attempts = Range(servers)
    /\ fatal = "Exception" => (sessions = {} /\ DOMAIN attempts = Range(servers))

C9_Witness ==
    /\ pc = "chat_loop" /\ servers = <<"A", "B">>
    /\ attempts["A"] = "initialize" /\ attempts["B"] = "ok"
    /\ sessions = {"B"} /\ Owners = {"B"}

\* C10: each capability kind is enumerated in its own failure scope: a
\* connected server is asked for all three kinds, whatever the others
\* answered, everything a kind returned is registered, and the server stays in
\* sessions.
Enumerated(s) == s \in DOMAIN listed_resources

C10_KindsAreIndependent ==
    /\ \A s \in sessions :
          (~Connecting \/ s # servers[sidx]) =>
              (s \in DOMAIN listed_tools /\ s \in DOMAIN listed_prompts /\ Enumerated(s))
    /\ \A s \in DOMAIN listed_tools :
          /\ s \in sessions
          /\ ToolsOf(s) \subseteq Range(all_tools) \cap DOMAIN tool_to_server
          /\ PromptsOf(s) \subseteq Range(all_prompts) \cap DOMAIN prompt_to_server
          /\ ResourcesOf(s) \subseteq DOMAIN resource_to_server
          /\ \A u \in ResourcesOf(s) : ResourceEntry(u, s) \in Range(all_resources)

C10_Witness ==
    /\ pc = "chat_loop" /\ sessions = {"A"}
    /\ listed_prompts["A"] = Raises
    /\ ToolsOf("A") = {"search_papers", "extract_info"}
    /\ ResourcesOf("A") = {"papers://folders"}
    /\ Len(all_tools) = 2 /\ Len(all_resources) = 1 /\ all_prompts = <<>>

\* C11: a connected server whose list_prompts answered no prompt, or raised,
\* owns no entry of prompt_to_server and has added nothing to all_prompts: the
\* count of all_prompts is the sum of what the other servers listed.
RECURSIVE Registered(_, _)
Registered(listing, i) ==
    IF i = 0 THEN 0
    ELSE (IF servers[i] \in DOMAIN listing /\ listing[servers[i]] # Raises
          THEN Len(listing[servers[i]]) ELSE 0) + Registered(listing, i - 1)

PromptOwners == {prompt_to_server[n] : n \in DOMAIN prompt_to_server}

C11_NoPromptsNoEffect ==
    /\ \A s \in DOMAIN listed_prompts : PromptsOf(s) = {} => s \notin PromptOwners
    /\ Len(all_prompts) = Registered(listed_prompts, Len(servers))

C11_Witness ==
    /\ pc = "chat_loop" /\ servers = <<"A", "B">> /\ sessions = {"A", "B"}
    /\ listed_prompts["A"] = <<"get_search_prompt">>
    /\ listed_prompts["B"] = Raises
    /\ all_prompts = <<"get_search_prompt">> /\ PromptOwners = {"A"}

\* C12: in every state, every tool name of all_tools has an entry in
\* tool_to_server.
C12_ListedToolsAreMapped == Range(all_tools) \subseteq DOMAIN tool_to_server

C12_Witness ==
    /\ pc = "list_prompts" /\ sidx = 2
    /\ Len(all_tools) = 3 /\ DOMAIN tool_to_server = {"search_papers", "extract_info"}

\* C13: cleanup releases every transport and session that was opened, each
\* once, whether or not a release raises: during aclose the releases run and
\* those still registered are together the ones opened, and at the end none
\* is left.
OpenedBy(s) ==
    CASE attempts[s] = "transport" -> {}
      [] attempts[s] = "session" -> {<<"transport", s>>}
      [] OTHER -> {<<"transport", s>>, <<"session", s>>}
Opened == UNION {OpenedBy(s) : s \in DOMAIN attempts}

C13_TeardownReleasesAll ==
    pc \in {"aclose", "exit"} =>
        /\ Range(released) \cup Range(exit_stack) = Opened
        /\ Len(released) + Len(exit_stack) = Cardinality(Opened)
        /\ pc = "exit" => exit_stack = <<>>

C13_Witness ==
    /\ pc = "exit" /\ close_error
    /\ sessions = {"A", "B"} /\ Len(released) = 4

\* C14: cleanup is called once, at the end of main and not before, and no
\* query is in flight when a line is read or when teardown runs: a query is in
\* flight exactly while main stands inside process_query.
Teardown == pc \in {"cleanup", "aclose", "exit"}
InQuery == pc \in {"AwaitingModel", "ExecutingTools", "call_tool"}

C14_TeardownOnceAtTheEnd ==
    /\ cleanups = (IF pc \in {"aclose", "exit"} THEN 1 ELSE 0)
    /\ ~Teardown => (released = <<>> /\ ~close_error)
    /\ (pq = "running") <=> InQuery
    /\ InQuery => (cleanups = 0 /\ Len(messages) >= 1)

C14_Witness ==
    /\ pc = "exit" /\ cleanups = 1 /\ asked = 2
    /\ released = <<<<"session", "A">>, <<"transport", "A">>>>

\* C15: after an interrupt in the shell (while a line is read or while a
\* query is processed) the shell loop has ended and teardown runs.
C15_InterruptEndsShell == interrupted => Teardown

\* C16: process_query starts from a history of exactly one user turn, that of
\* its query, whatever an earlier query left; while it runs, the history only
\* grows at its end.
IsPrefix(a, b) == Len(a) <= Len(b) /\ SubSeq(b, 1, Len(a)) = a

C16_FreshHistory ==
    [][ /\ (pc = "chat_loop" /\ pc' = "AwaitingModel") =>
              (iteration' = 0 /\ \E q \in Queries : messages' = <<UserTurn(q)>>)
        /\ (InQuery /\ pc' \in {"AwaitingModel", "ExecutingTools", "call_tool",
                                "chat_loop"}) =>
              IsPrefix(messages, messages') ]_vars

C16_Witness ==
    /\ asked = 2 /\ pc = "AwaitingModel"
    /\ Len(messages) = 3 /\ messages[1] = UserTurn("q2")
    /\ messages[2].role = "assistant" /\ messages[3].role = "tool"

\* C17: a search that the backend answered and that was saved leaves in
\* papers_info.json every id that was there, with the new record when the id
\* was returned again and with its old record otherwise, and every id
\* returned.
Returned(papers) == {papers[i].id : i \in 1..Len(papers)}
RecordOf(papers, id) ==
    papers[CHOOSE i \in 1..Len(papers) :
              papers[i].id = id /\ \A j \in (i + 1)..Len(papers) : papers[j].id # id].title

C17_MergeById ==
    [][ (nsearches' = nsearches + 1 /\ last_search'.backend = "ok"
            /\ last_search'.write = "ok") =>
          LET path == last_search'.path
              old == LoadPapersInfo(path)
              papers == last_search'.result.papers
          IN /\ path \in dirs' /\ path \in DOMAIN files' /\ files'[path].valid
             /\ DOMAIN files'[path].info = DOMAIN old \cup Returned(papers)
             /\ \A id \in DOMAIN old \ Returned(papers) :
                    files'[path].info[id] = old[id]
             /\ \A id \in Returned(papers) :
                    files'[path].info[id] = RecordOf(papers, id)
             /\ \A other \in DOMAIN files \ {path} :
                    other \in DOMAIN files' /\ files'[other] = files[other] ]_vars

C17_Witness ==
    /\ last_search.backend = "ok" /\ last_search.write = "ok"
    /\ last_search.result.papers = <<Paper("p1", "t2")>>
    /\ DOMAIN files[last_search.path].info = {"p1", "p2"}
    /\ files[last_search.path].info["p1"] = "t2"
    /\ files[last_search.path].info["p2"] = "t1"

\* C18: a search and a read whose topics differ only in letter case or in the
\* whitespace between the words use the same cache path, and a normalized
\* topic is its own normal form.
Fold(c) == IF c \in Whitespace THEN " " ELSE Lower(c)
SameTopic(a, b) ==
    Len(a) = Len(b) /\ \A i \in 1..Len(a) : Fold(a[i]) = Fold(b[i])

C18_VariantsShareCachePath ==
    /\ (last_search.backend = "ok" /\ last_read.read
            /\ SameTopic(last_search.topic, last_read.topic))
          => last_search.path = last_read.path
    /\ TopicDir(last_search.path) = last_search.path
    /\ TopicPath(last_read.path) = last_read.path

\* C19: a search whose backend raised returns the error payload for its topic
\* and leaves every topic directory and every papers_info.json as it was.
C19_BackendFailureIsPayload ==
    [][ (nsearches' = nsearches + 1 /\ last_search'.backend = "error") =>
          /\ last_search'.result.error
          /\ last_search'.result.topic = last_search'.topic
          /\ UNCHANGED <<dirs, files>> ]_vars

C19_Witness ==
    /\ last_search.backend = "error" /\ last_search.result.error
    /\ nsearches = 2 /\ dirs # {} /\ TopicDir(last_search.topic) \notin dirs

\* C20: a tool name that two connected servers advertise is owned by the one
\* that comes last in the configuration, and call_tool for that name is sent
\* to the session of that server.
Advertisers(t) ==
    {i \in 1..Len(servers) : servers[i] \in sessions /\ t \in ToolsOf(servers[i])}
Collides(t) == Cardinality(Advertisers(t)) >= 2
LastOf(t) == servers[CHOOSE i \in Advertisers(t) : \A j \in Advertisers(t) : j <= i]

C20_LastRegisteredWins ==
    \A t \in DOMAIN tool_to_server :
        Collides(t) =>
            /\ tool_to_server[t] = LastOf(t)
            /\ (pc = "call_tool" /\ Batch[cidx].name = t) => session = LastOf(t)

C20_Witness ==
    /\ pc = "call_tool" /\ servers = <<"A", "B">>
    /\ Collides("extract_info") /\ Batch[cidx].name = "extract_info"
    /\ session = "B"

\* C21: all_tools, the list offered to the model, never holds two descriptors
\* with the same name.
C21_ToolNamesUnique ==
    \A i, j \in 1..Len(all_tools) : all_tools[i] = all_tools[j] => i = j

\* C22: over HTTP, a request whose Host header is not in allowed_hosts
\* (localhost, 127.0.0.1 and the external hostname when set) is rejected.
C22_HostHeaderValidated ==
    \A i \in 1..Len(requests) :
        requests[i].accepted => requests[i].host \in Range(allowed_hosts)

\* C23: the release of every transport and session is on the exit stack from
\* the moment it is opened, also for a server whose handshake failed and that
\* is not in sessions; nothing is released before cleanup, and cleanup
\* releases them all.
Acquired(s) ==
    IF attempts[s] = "started" /\ pc = "ClientSession" THEN {<<"transport", s>>}
    ELSE OpenedBy(s)
AllAcquired == UNION {Acquired(s) : s \in DOMAIN attempts}

C23_ReleaseRegisteredAtAcquisition ==
    /\ pc \notin {"aclose", "exit"} =>
          /\ Range(exit_stack) = AllAcquired
          /\ Len(exit_stack) = Cardinality(AllAcquired)
          /\ released = <<>>
    /\ \A s \in DOMAIN attempts :
          attempts[s] = "initialize" =>
              /\ s \notin sessions
              /\ {<<"transport", s>>, <<"session", s>>}
                    \subseteq Range(exit_stack) \cup Range(released)
    /\ pc = "exit" => (exit_stack = <<>> /\ Range(released) = AllAcquired)

C23_Witness ==
    /\ pc = "exit" /\ servers = <<"A", "B">>
    /\ attempts["A"] = "initialize" /\ attempts["B"] = "ok" /\ sessions = {"B"}
    /\ released = <<<<"session", "B">>, <<"transport", "B">>,
                    <<"session", "A">>, <<"transport", "A">>>>

\* C24: every server that owns a tool, a prompt or a resource is a key of
\* sessions; so the result "server not connected" is only ever given to an
\* invocation of a tool name that has no entry in tool_to_server.
NotConnected(i) ==
    \E m \in ResultTurns(Batch[i].id) : m.content = ErrNotConnected

C24_OwnersAreConnected ==
    /\ Owners \subseteq sessions
    /\ \A i \in 1..Len(Batch) : NotConnected(i) => Unmapped(Batch[i].name)
    /\ (pc = "ExecutingTools" /\ ~Unmapped(Batch[cidx].name))
          => ServerFor(Batch[cidx].name) \in sessions

C24_Witness ==
    /\ pc = "chat_loop" /\ pq = "IterationLimitReached"
    /\ servers = <<"A", "B">> /\ attempts["A"] = "initialize"
    /\ sessions = {"B"} /\ Owners = {"B"}
    /\ "extract_info" \in DOMAIN tool_to_server
    /\ Batch[1].name = "nope" /\ NotConnected(1)

RECURSIVE BatchesIn(_)
BatchesIn(h) ==
    IF h = <<>> THEN 0
    ELSE (IF Head(h).role = "assistant" THEN 1 ELSE 0) + BatchesIn(Tail(h))

C26_LimitAfterLastBatch ==
    [][ /\ (pq' = "IterationLimitReached" /\ pq # "IterationLimitReached") =>
              LET k == Len(message'.tool_calls)
                  n == Len(messages') - k
              IN /\ pc' = "chat_loop" /\ escaped' = "none"
                 /\ iteration' = max_iterations /\ model_calls' = max_iterations
                 /\ BatchesIn(messages') = max_iterations
                 /\ k >= 1 /\ n >= 2
                 /\ messages'[n] = AssistantTurn(message'.content, message'.tool_calls)
                 /\ \A j \in 1..k :
                       /\ messages'[n + j].role = "tool"
                       /\ messages'[n + j].tool_call_id = message'.tool_calls[j].id
        /\ (pq = "IterationLimitReached") =>
              /\ model_calls' = 0
              /\ \A m \in Range(messages') : m.role = "user" ]_vars

C26_Witness ==
    /\ pq = "IterationLimitReached" /\ max_iterations = 2 /\ model_calls = 2
    /\ Len(Batch) = 2 /\ Len(messages) = 6
    /\ messages[5].content = ErrException /\ messages[6].content = "text"

====
